---- MODULE Spec2Model ----
(***************************************************************************)
(* NaijaCyberGuardian (bot.py): the message analysis pipeline              *)
(* (extract_urls, expand_url, domain_heuristics, compute_keyword_score,    *)
(* ml_classify, analyze_text), the reports file written by save_report and *)
(* the two Telegram handlers that use them (analyze_handler,               *)
(* report_command).                                                        *)
(*                                                                         *)
(* Representation.                                                         *)
(*  - A Python str is a sequence of one-character strings, so that `in`,   *)
(*    startswith, endswith, lower, upper, strip, the URL regex and         *)
(*    urlparse are computed character by character.                        *)
(*  - None is the empty tuple <<>> and a present value v is <<v>> where a  *)
(*    field may be None (the ML label).                                    *)
(*  - A dict with a fixed key set is a record; LAST_ANALYSIS_BY_CHAT is a  *)
(*    function whose DOMAIN is the set of keys stored so far.              *)
(*  - Floats.  Scores are exact integers: the keyword score in hundredths, *)
(*    the ML score and final_score in thousandths, link_score in           *)
(*    ten-thousandths.  IEEE-754 evaluation of the source differs from     *)
(*    exact arithmetic in one place the code can observe: 0.1 + 0.2 and    *)
(*    0.4 + 0.2 evaluate to 0.30000000000000004 and 0.6000000000000001,    *)
(*    and the first is compared with 0.3.  The excess is kept as one       *)
(*    ten-thousandth (FLOAT_EXCESS).  round(x, 3) of the fused score never *)
(*    meets a tie for ML scores given in thousandths (all terms are even   *)
(*    multiples of 1e-4), so it is rounding to the nearest thousandth.     *)
(*  - The network, the WHOIS service, the classifier and the file system   *)
(*    are the environment: every call draws its outcome from a small set.  *)
(*  - The Firebase push, the /start, /help and /stats replies and the      *)
(*    Flask routes change no state of the process and are not modelled.    *)
(***************************************************************************)
EXTENDS Integers, Sequences, FiniteSets, TLC

VARIABLES
    classifier,            \* "loaded" | "none": module-level classifier (bot.py 91-100)
    WHOIS_AVAILABLE,       \* BOOLEAN: python-whois imported (bot.py 47-51)
    LAST_ANALYSIS_BY_CHAT, \* dict chat_id -> analysis record (bot.py 336)
    reportsFile,           \* reports.json: [state, arr]
    now,                   \* the clock: one tick per text message received
    reply,                 \* the last reply_text sent: [chat, kind, verdict, reasons]
    lastMessage,           \* ghost: chat -> <<event>> of the last text message received
    lastAnalyzed,          \* ghost: chat -> <<event>> of the last message that was analysed
    saved,                 \* ghost: what each /report handed to save_report, in call order
    priorCount,            \* ghost: entries reports.json held when the process started
    ioFailed               \* ghost: some read or write of reports.json has failed

vars == <<classifier, WHOIS_AVAILABLE, LAST_ANALYSIS_BY_CHAT, reportsFile, now,
          reply, lastMessage, lastAnalyzed, saved, priorCount, ioFailed>>

(***************************************************************************)
(* Bounds of the exploration.                                              *)
(***************************************************************************)
MaxMsgs == 1

BotMaxMsgs == 3

BotMaxReports == 1

StoreMaxMsgs == 2

StoreMaxReports == 3

PriorReports == 1999

(***************************************************************************)
(* Program constants.                                                      *)
(***************************************************************************)
KEYWORDS ==
    << <<"b","v","n">>,
       <<"v","e","r","i","f","y">>,
       <<"c","b","n">>,
       <<"u","r","g","e","n","t">>,
       <<"a","c","c","o","u","n","t"," ","s","u","s","p","e","n","d","e","d">>,
       <<"b","a","n","k"," ","l","o","g","i","n">>,
       <<"o","t","p">>,
       <<"o","n","e"," ","t","i","m","e">>,
       <<"y","o","u"," ","h","a","v","e"," ","w","o","n">>,
       <<"c","o","n","g","r","a","t","u","l","a","t","i","o","n","s">>,
       <<"c","l","i","c","k"," ","h","e","r","e">>,
       <<"t","i","n","y","u","r","l">>,
       <<"b","i","t",".","l","y">>,
       <<"b","o","r","r","o","w">>,
       <<"l","o","a","n"," ","a","p","p","r","o","v","e","d">>,
       <<"n","o"," ","b","v","n">>,
       <<"n","o"," ","d","o","c">>,
       <<"t","r","a","n","s","f","e","r"," ","n","o","w">>,
       <<"p","a","s","s","w","o","r","d">>,
       <<"r","e","s","e","t">>,
       <<"b","l","o","c","k","e","d">>,
       <<"s","u","s","p","e","n","d","e","d">> >>

PIDGIN_PATTERNS ==
    << <<"b","r","o","s">>,
       <<"a","b","e","g">>,
       <<"s","e","n","d"," ","m","e">>,
       <<"h","e","l","p"," ","m","e">>,
       <<"i"," ","n","e","e","d"," ","m","o","n","e","y">>,
       <<"n","a","i","r","a">>,
       <<"p","a","y"," ","s","m","a","l","l">> >>

SUSPICIOUS_TLDS ==
    { <<".","x","y","z">>,
      <<".","t","o","p">>,
      <<".","c","l","u","b">>,
      <<".","o","n","l","i","n","e">>,
      <<".","i","n","f","o">>,
      <<".","r","u">>,
      <<".","t","k">> }

SHORTENER_HOSTS ==
    { <<"b","i","t",".","l","y">>,
      <<"t","i","n","y","u","r","l",".","c","o","m">>,
      <<"t",".","c","o">>,
      <<"g","o","o",".","g","l">>,
      <<"o","w",".","l","y">>,
      <<"r","e","b","r","a","n","d",".","l","y">>,
      <<"s","h","o","r","t","u","r","l",".","a","t">> }

SUSPICIOUS_SUBSTRINGS ==
    << <<"v","e","r","i","f","y">>,
       <<"l","o","g","i","n">>,
       <<"s","e","c","u","r","e">>,
       <<"c","o","n","f","i","r","m">>,
       <<"u","p","d","a","t","e">>,
       <<"a","c","c","o","u","n","t">>,
       <<"s","e","r","v","i","c","e">> >>

LOWER_OF ==
    "A" :> "a" @@ "B" :> "b" @@ "C" :> "c" @@ "D" :> "d" @@ "E" :> "e" @@ "F" :> "f"
    @@ "G" :> "g" @@ "H" :> "h" @@ "I" :> "i" @@ "J" :> "j" @@ "K" :> "k" @@ "L" :> "l"
    @@ "M" :> "m" @@ "N" :> "n" @@ "O" :> "o" @@ "P" :> "p" @@ "Q" :> "q" @@ "R" :> "r"
    @@ "S" :> "s" @@ "T" :> "t" @@ "U" :> "u" @@ "V" :> "v" @@ "W" :> "w" @@ "X" :> "x"
    @@ "Y" :> "y" @@ "Z" :> "z"

UPPER_OF ==
    "a" :> "A" @@ "b" :> "B" @@ "c" :> "C" @@ "d" :> "D" @@ "e" :> "E" @@ "f" :> "F"
    @@ "g" :> "G" @@ "h" :> "H" @@ "i" :> "I" @@ "j" :> "J" @@ "k" :> "K" @@ "l" :> "L"
    @@ "m" :> "M" @@ "n" :> "N" @@ "o" :> "O" @@ "p" :> "P" @@ "q" :> "Q" @@ "r" :> "R"
    @@ "s" :> "S" @@ "t" :> "T" @@ "u" :> "U" @@ "v" :> "V" @@ "w" :> "W" @@ "x" :> "X"
    @@ "y" :> "Y" @@ "z" :> "Z"

HTTP_SCHEME ==
    <<"h","t","t","p",":","/","/">>

HTTPS_SCHEME ==
    <<"h","t","t","p","s",":","/","/">>

WWW_PREFIX ==
    <<"w","w","w",".">>

KEYWORD_REASON ==
    <<"C","o","n","t","a","i","n","s"," ","s","u","s","p","i","c","i","o","u","s"," ","k","e","y","w","o","r","d","s",":"," ">>

PIDGIN_REASON ==
    <<"C","o","n","t","a","i","n","s"," ","i","n","f","o","r","m","a","l","/","p","i","d","g","i","n"," ","p","a","t","t","e","r","n","s",":"," ">>

LINK_REASON ==
    <<"S","u","s","p","i","c","i","o","u","s"," ","l","i","n","k"," ","d","e","t","e","c","t","e","d",":"," ">>

LINK_ARROW ==
    <<" ","-",">"," ">>

ML_REASON ==
    <<"M","L"," ","c","l","a","s","s","i","f","i","e","r",":"," ">>

JOIN_SEP ==
    <<","," ">>

TextBlank ==
    <<" "," ">>

TextHello ==
    <<"h","e","l","l","o",","," ","h","o","w"," ","a","r","e"," ","y","o","u"," ","t","o","d","a","y">>

TextBvn ==
    <<"U","R","G","E","N","T"," ","y","o","u","r"," ","B","V","N"," ","i","s"," ","r","e","q","u","i","r","e","d",","," ","v","e","r","i","f","y"," ","n","o","w"," ","a","t"," ","h","t","t","p",":","/","/","b","i","t",".","l","y","/","x","y","z">>

TextLinks ==
    <<"h","t","t","p",":","/","/","b","i","t",".","l","y","/","a"," ","h","t","t","p",":","/","/","b","i","t",".","l","y","/","a"," ","w","w","w",".","p","a","y","-","n","o","w",".","x","y","z"," ","h","t","t","p","s",":","/","/","t","i","n","y","u","r","l",".","c","o","m","/","b"," ","H","T","T","P",":","/","/","t",".","c","o","/","x">>

TextManyKeywords ==
    <<"n","o"," ","b","v","n"," ","a","c","c","o","u","n","t"," ","s","u","s","p","e","n","d","e","d"," ","v","e","r","i","f","y"," ","o","t","p"," ","u","r","g","e","n","t"," ","a","b","e","g"," ","s","e","n","d"," ","m","e"," ","n","a","i","r","a"," ","b","v","n">>

TextDashLink ==
    <<"w","w","w",".","p","a","y","-","n","o","w",".","x","y","z">>

TextTldLink ==
    <<"a","b","e","g"," ","v","e","r","i","f","y"," ","h","t","t","p",":","/","/","a","b","c",".","x","y","z","\n","w","w","w",".","o","k",".","c","o","m"," ","h","t","t","p",":","/","/","b","i","t",".","l","y","/","a","\t","w","w","w",".">>

DestBenign ==
    <<"h","t","t","p","s",":","/","/","e","x","a","m","p","l","e",".","c","o","m","/">>

DestPhish ==
    <<"h","t","t","p",":","/","/","s","e","c","u","r","e","-","l","o","g","i","n",".","c","o","m","/","a">>

DestRelative ==
    <<"/","l","o","g","i","n">>

DestShort ==
    <<"h","t","t","p","s",":","/","/","b","i","t",".","l","y","/","q">>

LabelNegative ==
    <<"N","E","G","A","T","I","V","E">>

LabelPositive ==
    <<"P","O","S","I","T","I","V","E">>

LabelLower ==
    <<"l","a","b","e","l","_","1">>

CREATION_DATE ==
    <<"2","0","2","4","-","0","1","-","0","1"," ","0","0",":","0","0",":","0","0">>

DIGITS ==
    <<"0", "1", "2", "3", "4", "5", "6", "7", "8", "9">>

\* Thousandths s ending in 5 for which f"{s/1000:.2f}" rounds up: the double
\* nearest s/1000 lies above the tie.
TIE_ROUNDS_UP ==
    {5, 25, 35, 55, 65, 85, 95, 115, 135, 165, 195, 225, 255, 265, 275, 315, 325, 335,
     375, 385, 395, 405, 445, 455, 465, 505, 515, 525, 535, 545, 555, 635, 645, 655,
     665, 675, 685, 755, 765, 775, 785, 795, 805, 875, 885, 895, 905, 915, 925, 935}

\* The labels analyze_text treats as indicating risk (bot.py 240).
RISK_LABELS ==
    { <<"N","E","G","A","T","I","V","E">>,
      <<"L","A","B","E","L","_","1">>,
      <<"S","U","S","P","I","C","I","O","U","S">>,
      <<"F","A","K","E">> }

\* arr[-2000:] in save_report.
REPORTS_KEPT == 2000

\* One ten-thousandth: the excess of 0.1 + 0.2 over 0.3 in IEEE-754 doubles, kept
\* as the smallest unit of link_score.
FLOAT_EXCESS == 1

(***************************************************************************)
(* Python str operations, character by character.                          *)
(***************************************************************************)
Min(a, b) == IF a <= b THEN a ELSE b

\* str.lower() and str.upper() of one character (ASCII).
Lower(c) == IF c \in DOMAIN LOWER_OF THEN LOWER_OF[c] ELSE c

Upper(c) == IF c \in DOMAIN UPPER_OF THEN UPPER_OF[c] ELSE c

RECURSIVE LowerStr(_)
LowerStr(s) == IF s = <<>> THEN <<>> ELSE <<Lower(Head(s))>> \o LowerStr(Tail(s))

RECURSIVE UpperStr(_)
UpperStr(s) == IF s = <<>> THEN <<>> ELSE <<Upper(Head(s))>> \o UpperStr(Tail(s))

\* \s of the regex and the characters str.strip() removes.
IsSpace(c) == c \in {" ", "\t", "\n"}

\* not text.strip()
IsBlank(s) == \A i \in 1..Len(s) : IsSpace(s[i])

\* p occurs in s at index i (1-based).
PrefixAt(s, i, p) ==
    /\ i + Len(p) - 1 <= Len(s)
    /\ \A j \in 1..Len(p) : s[i + j - 1] = p[j]

\* sub in s
Contains(sub, s) == \E i \in 1..(Len(s) - Len(sub) + 1) : PrefixAt(s, i, sub)

\* s.startswith(p)
StartsWith(s, p) == PrefixAt(s, 1, p)

\* s.endswith(p)
EndsWith(s, p) == Len(p) <= Len(s) /\ PrefixAt(s, Len(s) - Len(p) + 1, p)

\* sep.join(items)
RECURSIVE Join(_, _)
Join(sep, items) ==
    IF items = <<>> THEN <<>>
    ELSE IF Len(items) = 1 THEN items[1]
    ELSE items[1] \o sep \o Join(sep, Tail(items))

\* f"{x:.2f}" of a float given in thousandths, 0 <= s <= 1000.
Fmt2(s) ==
    LET down == s \div 10
        h == IF s % 10 > 5 \/ (s % 10 = 5 /\ s \in TIE_ROUNDS_UP) THEN down + 1 ELSE down
    IN  <<DIGITS[(h \div 100) + 1], ".", DIGITS[((h \div 10) % 10) + 1], DIGITS[(h % 10) + 1]>>

(***************************************************************************)
(* URL extraction, normalisation, expansion.                               *)
(***************************************************************************)
\* Length of the literal head of URL_REGEX that matches (ignoring case) at
\* index i of the lowered text: "https://", "http://", "www.", or 0.
UrlPrefixLen(low, i) ==
    IF PrefixAt(low, i, HTTPS_SCHEME) THEN Len(HTTPS_SCHEME)
    ELSE IF PrefixAt(low, i, HTTP_SCHEME) THEN Len(HTTP_SCHEME)
    ELSE IF PrefixAt(low, i, WWW_PREFIX) THEN Len(WWW_PREFIX)
    ELSE 0

\* Last index of the run of non-whitespace characters that starts at j: [^\s]+ is greedy.
RunEnd(text, j) ==
    IF \E k \in j..Len(text) : IsSpace(text[k])
    THEN (CHOOSE k \in j..Len(text) :
              IsSpace(text[k]) /\ \A m \in j..(k - 1) : ~IsSpace(text[m])) - 1
    ELSE Len(text)

\* URL_REGEX.findall: leftmost matches, left to right, not overlapping.
RECURSIVE FindAll(_, _, _)
FindAll(text, low, i) ==
    IF i > Len(text) THEN <<>>
    ELSE LET n == UrlPrefixLen(low, i)
         IN  IF n > 0 /\ i + n <= Len(text) /\ ~IsSpace(text[i + n])
             THEN LET e == RunEnd(text, i + n)
                  IN  <<SubSeq(text, i, e)>> \o FindAll(text, low, e + 1)
             ELSE FindAll(text, low, i + 1)

extract_urls(text) ==
    IF text = <<>> THEN <<>> ELSE FindAll(text, LowerStr(text), 1)

\* startswith and re.match are case sensitive here, unlike URL_REGEX.
normalize_url(u) ==
    LET u1 == IF StartsWith(u, WWW_PREFIX) THEN HTTP_SCHEME \o u ELSE u
    IN  IF StartsWith(u1, HTTP_SCHEME) \/ StartsWith(u1, HTTPS_SCHEME)
        THEN u1
        ELSE HTTP_SCHEME \o u1

\* expand_url returning the normalised URL where the source returns the raw one.
expand_url_normalized(url, net) ==
    IF net.head = "raise" THEN normalize_url(url)
    ELSE IF net.head = "location" /\ net.location # <<>> THEN net.location
    ELSE IF net.get = "raise" THEN normalize_url(url)
    ELSE net.final

\* net is what the network does with the HEAD and the GET of this call:
\* [head: "raise" | "location" | "no_location", location, get: "raise" | "ok", final].
expand_url(url, net) ==
    IF net.head = "raise" THEN url
    ELSE IF net.head = "location" /\ net.location # <<>> THEN net.location
    ELSE IF net.get = "raise" THEN url
    ELSE net.final

\* Index of the first character of s that is in stops, or Len(s) + 1.
FirstOf(s, stops) ==
    IF \E k \in 1..Len(s) : s[k] \in stops
    THEN CHOOSE k \in 1..Len(s) : s[k] \in stops /\ \A m \in 1..(k - 1) : s[m] \notin stops
    ELSE Len(s) + 1

\* Index of the last character of s that is in stops, or 0.
LastOf(s, stops) ==
    IF \E k \in 1..Len(s) : s[k] \in stops
    THEN CHOOSE k \in 1..Len(s) : s[k] \in stops /\ \A m \in (k + 1)..Len(s) : s[m] \notin stops
    ELSE 0

\* urlparse(url0): url0 starts with http:// or https://; the netloc runs from
\* "//" to the first of / ? #.
url_netloc(url0) ==
    LET skip == IF StartsWith(url0, HTTPS_SCHEME) THEN Len(HTTPS_SCHEME) ELSE Len(HTTP_SCHEME)
        stop == FirstOf(SubSeq(url0, skip + 1, Len(url0)), {"/", "?", "#"})
    IN  SubSeq(url0, skip + 1, skip + stop - 1)

\* The netloc without its userinfo (up to the last @).
netloc_hostinfo(netloc) == SubSeq(netloc, LastOf(netloc, {"@"}) + 1, Len(netloc))

\* The host without its port (from the first :), lowered.  Bracketed IPv6 hosts
\* are outside the alphabet used.
hostinfo_hostname(hostinfo) == LowerStr(SubSeq(hostinfo, 1, FirstOf(hostinfo, {":"}) - 1))

\* urlparse(normalize_url(url)).hostname or ""
domain_from_url(url) ==
    hostinfo_hostname(netloc_hostinfo(url_netloc(normalize_url(url))))

(***************************************************************************)
(* Domain heuristics, keyword score, ML score.                             *)
(***************************************************************************)
\* The terms of vocab that occur in txt, in the order of vocab.
matched_terms(vocab, txt) == SelectSeq(vocab, LAMBDA term : Contains(term, txt))

\* whois is the outcome of pywhois.whois(domain): "ok" | "raise".  It is
\* consulted only when WHOIS_AVAILABLE and the domain is not empty.
heuristics_lowered(domain, lower) ==
    [domain |-> domain,
     suspicious_tld |-> \E tld \in SUSPICIOUS_TLDS : EndsWith(lower, tld),
     has_dash |-> Contains(<<"-">>, domain),
     length |-> Len(domain),
     suspicious_substrings |-> matched_terms(SUSPICIOUS_SUBSTRINGS, lower)]

\* The fields the WHOIS block adds.
with_whois(heur, whois) ==
    IF ~WHOIS_AVAILABLE THEN heur
    ELSE IF whois = "ok"
         THEN [whois_success |-> TRUE, creation_date |-> CREATION_DATE,
               whois_raw |-> TRUE] @@ heur
         ELSE [whois_success |-> FALSE] @@ heur

domain_heuristics(domain, whois) ==
    IF domain = <<>>
    THEN [domain |-> domain, suspicious_tld |-> FALSE, has_dash |-> FALSE,
          length |-> 0, suspicious_substrings |-> <<>>]
    ELSE with_whois(heuristics_lowered(domain, LowerStr(domain)), whois)

shortener_check(domain) ==
    \E s \in SHORTENER_HOSTS : Contains(s, LowerStr(domain))

\* keyword_result without the min(1.0, .).
keyword_result_uncapped(matches, matches_pidgin) ==
    [score |-> Len(matches) * 18 + Len(matches_pidgin) * 8,
     keywords |-> matches,
     pidgin |-> matches_pidgin]

\* score in hundredths: min(1.0, len(matches) * 0.18 + len(matches_pidgin) * 0.08).
keyword_result(matches, matches_pidgin) ==
    [score |-> Min(100, Len(matches) * 18 + Len(matches_pidgin) * 8),
     keywords |-> matches,
     pidgin |-> matches_pidgin]

keyword_score_lowered(txt) ==
    keyword_result(matched_terms(KEYWORDS, txt), matched_terms(PIDGIN_PATTERNS, txt))

compute_keyword_score(text) == keyword_score_lowered(LowerStr(text))

\* ml_classify whose except branch reports an available classifier with no label.
ml_classify_swallow(text, out) ==
    IF classifier = "none" THEN [available |-> FALSE]
    ELSE IF out.kind = "result"
         THEN [available |-> TRUE, label |-> <<out.label>>, score |-> out.score]
         ELSE [available |-> TRUE, label |-> <<>>, score |-> 0]

\* out is what classifier(text[:512]) does: [kind: "raise" | "empty" | "result",
\* label, score], score in thousandths.  "empty" is an output that is not a
\* non-empty list.
ml_classify(text, out) ==
    IF classifier = "none" THEN [available |-> FALSE]
    ELSE IF out.kind = "raise" THEN [available |-> FALSE]
    ELSE IF out.kind = "result"
         THEN [available |-> TRUE, label |-> <<out.label>>, score |-> out.score]
         ELSE [available |-> TRUE, label |-> <<>>, score |-> 0]

(***************************************************************************)
(* analyze_text.                                                           *)
(***************************************************************************)
\* 0.2 added to a running link score x (ten-thousandths), as IEEE-754 doubles
\* add: 0.1 + 0.2 and 0.4 + 0.2 land just above 0.3 and 0.6.
FloatAddSubstrings(x) ==
    IF x \in {1000, 4000} THEN x + 2000 + FLOAT_EXCESS ELSE x + 2000

\* link_score in ten-thousandths from the flags of one heuristic record.
link_score_of(heur) ==
    LET s1 == IF heur.is_shortener THEN 5000 ELSE 0
        s2 == IF heur.suspicious_tld THEN s1 + 3000 ELSE s1
        s3 == IF heur.has_dash THEN s2 + 1000 ELSE s2
        s4 == IF heur.suspicious_substrings # <<>> THEN FloatAddSubstrings(s3) ELSE s3
    IN  Min(10000, s4)

\* heur with its link_score.
with_link_score(heur) == [link_score |-> link_score_of(heur)] @@ heur

\* heur_of recording the expanded URL as original_url.
heur_of_expanded(u, expanded, domain, whois) ==
    [original_url |-> expanded, expanded_url |-> expanded,
     is_shortener |-> shortener_check(domain)]
    @@ domain_heuristics(domain, whois)

\* The heuristic record of URL u whose expansion is expanded and whose host is domain.
heur_of(u, expanded, domain, whois) ==
    [original_url |-> u, expanded_url |-> expanded, is_shortener |-> shortener_check(domain)]
    @@ domain_heuristics(domain, whois)

url_info_expanded(u, expanded, whois) ==
    with_link_score(heur_of(u, expanded, domain_from_url(expanded), whois))

\* One pass of the loop over urls: the record appended to url_infos.
url_info(u, net, whois) == url_info_expanded(u, expand_url(u, net), whois)

\* The element of an outcome pattern that applies to the i-th URL of a message.
PatternAt(pattern, i) == pattern[((i - 1) % Len(pattern)) + 1]

\* if heur["link_score"] > 0.3
counts_as_suspicious(ui) == ui.link_score > 3000

\* link_has_reason with the threshold of counts_as_suspicious.
link_has_reason_03(ui) == ui.link_score > 3000

\* if ui["link_score"] > 0.25
link_has_reason(ui) == ui.link_score > 2500

\* ml.get("available") and label and score truthy and label.upper() in the risk labels
ml_boosts(ml) ==
    /\ ml.available
    /\ ml.label # <<>> /\ ml.label[1] # <<>>
    /\ ml.score # 0
    /\ UpperStr(ml.label[1]) \in RISK_LABELS

\* final_score in thousandths: round(x, 3) of the fused score x, x computed in
\* ten-thousandths (kw["score"] * 0.6 + url_suspicious_count * 0.25, plus
\* 0.2 * ml score under min(1.0, .) when the ML label indicates risk).
fuse_score(kw, url_suspicious_count, ml) ==
    LET base == kw.score * 60 + url_suspicious_count * 2500
        fused == IF ml_boosts(ml) THEN Min(10000, base + 2 * ml.score) ELSE base
    IN  (fused + 5) \div 10

link_reason(ui) == LINK_REASON \o ui.original_url \o LINK_ARROW \o ui.expanded_url

RECURSIVE link_reasons(_)
link_reasons(url_infos) ==
    IF url_infos = <<>> THEN <<>>
    ELSE (IF link_has_reason(url_infos[1]) THEN <<link_reason(url_infos[1])>> ELSE <<>>)
         \o link_reasons(Tail(url_infos))

keyword_reasons(kw) ==
    IF kw.keywords # <<>> THEN <<KEYWORD_REASON \o Join(JOIN_SEP, kw.keywords)>> ELSE <<>>

pidgin_reasons(kw) ==
    IF kw.pidgin # <<>> THEN <<PIDGIN_REASON \o Join(JOIN_SEP, kw.pidgin)>> ELSE <<>>

ml_reasons(ml) ==
    IF ml.available /\ ml.label # <<>> /\ ml.label[1] # <<>>
    THEN <<ML_REASON \o ml.label[1] \o <<" ", "(">> \o Fmt2(ml.score) \o <<")">> >>
    ELSE <<>>

build_reasons(kw, url_infos, ml) ==
    keyword_reasons(kw) \o pidgin_reasons(kw) \o link_reasons(url_infos) \o ml_reasons(ml)

\* The loop over urls, from the i-th URL on: url_infos in url order.
RECURSIVE url_infos_of(_, _, _, _)
url_infos_of(urls, i, nets, whoiss) ==
    IF i > Len(urls) THEN <<>>
    ELSE <<url_info(urls[i], PatternAt(nets, i), PatternAt(whoiss, i))>>
         \o url_infos_of(urls, i + 1, nets, whoiss)

\* result once urls, kw, ml and url_infos are computed.
analysis_record(text, ts, urls, kw, ml, url_infos) ==
    [text |-> text, timestamp |-> ts, urls |-> urls, keyword |-> kw, ml |-> ml,
     url_infos |-> url_infos,
     final_score |->
         fuse_score(kw, Cardinality({i \in 1..Len(url_infos) :
                                        counts_as_suspicious(url_infos[i])}), ml),
     reasons |-> build_reasons(kw, url_infos, ml)]

analysis_of_urls(text, ts, urls, ml_out, nets, whoiss) ==
    analysis_record(text, ts, urls, compute_keyword_score(text), ml_classify(text, ml_out),
                    url_infos_of(urls, 1, nets, whoiss))

\* analyze_text(text) at timestamp ts, with the classifier's outcome and the
\* network and WHOIS outcome patterns of this call.
analyze_text(text, ts, ml_out, nets, whoiss) ==
    analysis_of_urls(text, ts, extract_urls(text), ml_out, nets, whoiss)

(***************************************************************************)
(* The reports file and save_report.                                       *)
(***************************************************************************)
\* arr[-n:]
LastN(arr, n) == IF Len(arr) <= n THEN arr ELSE SubSeq(arr, Len(arr) - n + 1, Len(arr))

\* arr[:n]
FirstN(arr, n) == IF Len(arr) <= n THEN arr ELSE SubSeq(arr, 1, n)

\* The reduced projection save_report stores.
short_of(report) ==
    [timestamp |-> report.timestamp,
     final_score |-> report.final_score,
     keywords |-> report.keyword.keywords,
     pidgin |-> report.keyword.pidgin,
     url_count |-> Len(report.urls),
     reasons |-> FirstN(report.reasons, 5)]

\* arr after the try block that reads REPORTS_FILE; rd = "raise" is an
\* open or json.load that fails on a file that exists.
read_reports(file, rd) ==
    IF file.state = "absent" THEN <<>>
    ELSE IF file.state = "corrupt" \/ rd = "raise" THEN <<>>
    ELSE file.arr

\* write_reports keeping arr[:2000] instead of arr[-2000:].
write_reports_head(file, arr, wr) ==
    IF wr = "ok" THEN [state |-> "valid", arr |-> FirstN(arr, REPORTS_KEPT)]
    ELSE IF wr = "open_raise" THEN file
    ELSE [state |-> "corrupt", arr |-> <<>>]

\* REPORTS_FILE after the try block that writes it: wr = "open_raise" leaves
\* the file as it was, wr = "dump_raise" leaves it truncated or partly written.
write_reports(file, arr, wr) ==
    IF wr = "ok" THEN [state |-> "valid", arr |-> LastN(arr, REPORTS_KEPT)]
    ELSE IF wr = "open_raise" THEN file
    ELSE [state |-> "corrupt", arr |-> <<>>]

save_report(file, report, rd, wr) ==
    write_reports(file, Append(read_reports(file, rd), short_of(report)), wr)

(***************************************************************************)
(* The handlers.                                                           *)
(***************************************************************************)
\* str(update.effective_chat.id)
chat_key(chat) == ToString(chat)

\* verdict_of with > in place of >= at the SCAM threshold.
verdict_of_strict(score) ==
    IF score > 700 THEN "SCAM"
    ELSE IF score >= 350 THEN "SUSPICIOUS"
    ELSE "SAFE"

\* The three-tier verdict of analyze_handler, score in thousandths.
verdict_of(score) ==
    IF score >= 700 THEN "SCAM"
    ELSE IF score >= 350 THEN "SUSPICIOUS"
    ELSE "SAFE"

\* What a recorded message event analyses to.
analysis_of(ev) == analyze_text(ev.text, ev.timestamp, ev.ml_out, ev.nets, ev.whoiss)

\* store_analysis keeping one analysis for the whole process.
store_analysis_single(cache, chat, analysis) ==
    [k \in {chat_key(chat)} |-> analysis]

\* LAST_ANALYSIS_BY_CHAT[chat_id] = analysis
store_analysis(cache, chat, analysis) ==
    [k \in DOMAIN cache \cup {chat_key(chat)} |->
        IF k = chat_key(chat) THEN analysis ELSE cache[k]]

\* analyze_handler after the blank-text check: analysis = analyze_text(text) is
\* stored and the verdict is replied.
reply_verdict(chat, analysis) ==
    /\ LAST_ANALYSIS_BY_CHAT' = store_analysis(LAST_ANALYSIS_BY_CHAT, chat, analysis)
    /\ reply' = [chat |-> chat, kind |-> "verdict",
                 verdict |-> verdict_of(analysis.final_score),
                 score |-> analysis.final_score,
                 reasons |-> FirstN(analysis.reasons, 4)]

\* analyze_handler on a text message in chat.
analyze_handler(chat, text, ml_out, nets, whoiss) ==
    LET ev == [text |-> text, timestamp |-> now + 1, ml_out |-> ml_out,
               nets |-> nets, whoiss |-> whoiss]
    IN  /\ now' = now + 1
        /\ lastMessage' = [lastMessage EXCEPT ![chat] = <<ev>>]
        /\ lastAnalyzed' = [lastAnalyzed EXCEPT
                               ![chat] = IF IsBlank(text) THEN @ ELSE <<ev>>]
        /\ IF IsBlank(text)
           THEN /\ reply' = [chat |-> chat, kind |-> "empty", verdict |-> "",
                             score |-> 0, reasons |-> <<>>]
                /\ UNCHANGED LAST_ANALYSIS_BY_CHAT
           ELSE reply_verdict(chat, analysis_of(ev))
        /\ UNCHANGED <<classifier, WHOIS_AVAILABLE, reportsFile, saved, priorCount, ioFailed>>

\* LAST_ANALYSIS_BY_CHAT.get(chat_id) as the set of records found (empty: None).
last_analysis(cache, chat) ==
    IF chat_key(chat) \in DOMAIN cache THEN {cache[chat_key(chat)]} ELSE {}

\* report_command in chat; rd and wr are the outcomes of the file read and write.
report_command(chat, rd, wr) ==
    LET last == last_analysis(LAST_ANALYSIS_BY_CHAT, chat)
    IN  /\ IF last = {}
           THEN /\ reply' = [chat |-> chat, kind |-> "no_recent", verdict |-> "",
                             score |-> 0, reasons |-> <<>>]
                /\ UNCHANGED <<reportsFile, saved, ioFailed>>
           ELSE LET report == CHOOSE r \in last : TRUE
                IN  /\ reportsFile' = save_report(reportsFile, report, rd, wr)
                    /\ saved' = Append(saved, [chat |-> chat, at |-> now,
                                               short |-> short_of(report)])
                    /\ ioFailed' = (ioFailed \/ wr # "ok"
                                    \/ (reportsFile.state # "absent" /\ rd = "raise"))
                    /\ reply' = [chat |-> chat, kind |-> "reported", verdict |-> "",
                                 score |-> 0, reasons |-> <<>>]
        /\ UNCHANGED <<classifier, WHOIS_AVAILABLE, LAST_ANALYSIS_BY_CHAT, now,
                       lastMessage, lastAnalyzed, priorCount>>

(***************************************************************************)
(* The environment: messages, classifier, network and WHOIS outcomes.      *)
(***************************************************************************)
Chats == {1, 2}

PipelineChats == {1}

Texts == {TextBlank, TextHello, TextBvn, TextLinks, TextManyKeywords, TextDashLink,
          TextTldLink}

BotTexts == {TextBlank, TextDashLink}

StoreTexts == {TextHello}

MLNotCalled == [kind |-> "not_called", label |-> <<>>, score |-> 0]

MLRaise == [kind |-> "raise", label |-> <<>>, score |-> 0]

MLEmpty == [kind |-> "empty", label |-> <<>>, score |-> 0]

MLResult(label, score) == [kind |-> "result", label |-> label, score |-> score]

MLOutcomes ==
    {MLRaise, MLEmpty, MLResult(LabelNegative, 495), MLResult(LabelLower, 500),
     MLResult(LabelPositive, 1000)}

BotMLOutcomes == {MLResult(LabelLower, 500)}

NetDown == [head |-> "raise", location |-> <<>>, get |-> "raise", final |-> <<>>]

NetGetFails == [head |-> "no_location", location |-> <<>>, get |-> "raise", final |-> <<>>]

NetLocation(dest) == [head |-> "location", location |-> dest, get |-> "raise", final |-> <<>>]

NetGet(dest) == [head |-> "no_location", location |-> <<>>, get |-> "ok", final |-> dest]

IsFailure(net) == net.head = "raise" \/ (net.head = "no_location" /\ net.get = "raise")

\* The i-th URL of a message meets the ((i - 1) mod length + 1)-th outcome of a pattern.
NetPatterns ==
    {<<NetDown>>,
     <<NetGetFails, NetLocation(DestBenign)>>,
     <<NetGet(DestPhish), NetDown>>,
     <<NetLocation(DestRelative), NetGet(DestBenign), NetGet(DestShort)>>}

BotNetPatterns == {<<NetDown>>}

WhoisPatterns == {<<"ok", "raise">>}

BotWhoisPatterns == {<<"ok">>}

ReadOutcomes == {"ok", "raise"}

WriteOutcomes == {"ok", "open_raise", "dump_raise"}

\* The classifier is called only for a text that is analysed, when it is loaded.
MLChoices(text, outcomes) ==
    IF classifier = "none" \/ IsBlank(text) THEN {MLNotCalled} ELSE outcomes

\* The network is used only for a message with URLs.
NetChoices(text, patterns) ==
    IF IsBlank(text) \/ extract_urls(text) = <<>> THEN {<<NetDown>>} ELSE patterns

\* WHOIS is used only when it is available and the message has URLs.
WhoisChoices(text, patterns) ==
    IF ~WHOIS_AVAILABLE \/ IsBlank(text) \/ extract_urls(text) = <<>>
    THEN {<<"raise">>}
    ELSE patterns

\* An entry written by an earlier run of the process.
PriorShort ==
    [timestamp |-> 0, final_score |-> 0, keywords |-> <<>>, pidgin |-> <<>>,
     url_count |-> 0, reasons |-> <<>>]

PriorArr(n) == [i \in 1..n |-> PriorShort]

(***************************************************************************)
(* Specifications.                                                         *)
(***************************************************************************)
\* The process after start-up, reports.json holding one of priors entries.
Started(priors) ==
    /\ classifier \in {"loaded", "none"}
    /\ WHOIS_AVAILABLE \in BOOLEAN
    /\ LAST_ANALYSIS_BY_CHAT = <<>>
    /\ priorCount \in priors
    /\ reportsFile = IF priorCount = 0 THEN [state |-> "absent", arr |-> <<>>]
                     ELSE [state |-> "valid", arr |-> PriorArr(priorCount)]
    /\ now = 0
    /\ reply = [chat |-> 0, kind |-> "none", verdict |-> "", score |-> 0, reasons |-> <<>>]
    /\ lastMessage = [c \in Chats |-> <<>>]
    /\ lastAnalyzed = [c \in Chats |-> <<>>]
    /\ saved = <<>>
    /\ ioFailed = FALSE

\* No reports file yet.
Init == Started({0})

\* No reports file yet, or one that earlier runs filled.
InitStore == Started({0, PriorReports})

Message(chats, texts, mls, netps, whoisps) ==
    \E chat \in chats, text \in texts :
        \E ml_out \in MLChoices(text, mls), nets \in NetChoices(text, netps),
           whoiss \in WhoisChoices(text, whoisps) :
            analyze_handler(chat, text, ml_out, nets, whoiss)

Report(chats) ==
    \E chat \in chats, rd \in ReadOutcomes, wr \in WriteOutcomes :
        report_command(chat, rd, wr)

\* One conversation, the full set of messages and outcomes, no /report.
PipelineMessage ==
    now < MaxMsgs /\ Message(PipelineChats, Texts, MLOutcomes, NetPatterns, WhoisPatterns)

Next == PipelineMessage

Spec == Init /\ [][Next]_vars

\* Several conversations and /report commands interleaved, a small set of messages.
BotMessage ==
    now < BotMaxMsgs
    /\ Message(Chats, BotTexts, BotMLOutcomes, BotNetPatterns, BotWhoisPatterns)

BotReport == Len(saved) < BotMaxReports /\ Report(Chats)

NextBot == BotMessage \/ BotReport

SpecBot == Init /\ [][NextBot]_vars

\* One conversation reporting repeatedly into a reports file that starts absent
\* or filled by earlier runs.
StoreMessage ==
    now < StoreMaxMsgs
    /\ Message(PipelineChats, StoreTexts, BotMLOutcomes, BotNetPatterns, BotWhoisPatterns)

StoreReport == Len(saved) < StoreMaxReports /\ Report(PipelineChats)

NextStore == StoreMessage \/ StoreReport

SpecStore == InitStore /\ [][NextStore]_vars

(***************************************************************************)
(* The claims.  A conversation c that has had a message analysed pairs the *)
(* event of that message (its text and what the environment did) with the  *)
(* record the handler stored for it.                                       *)
(***************************************************************************)
Analysed ==
    {c \in Chats : lastAnalyzed[c] # <<>> /\ chat_key(c) \in DOMAIN LAST_ANALYSIS_BY_CHAT}

Ev(c) == lastAnalyzed[c][1]

Rec(c) == LAST_ANALYSIS_BY_CHAT[chat_key(c)]

Range(s) == {s[i] : i \in 1..Len(s)}

RECORD_KEYS ==
    {"text", "timestamp", "urls", "keyword", "ml", "url_infos", "final_score", "reasons"}

\* C1: the final_score of every record returned by analyze_text lies in [0,1]
\* (0..1000 thousandths), whatever URL expansion and the classifier did.
C1_FinalScoreInUnitInterval ==
    \A c \in Analysed : Rec(c).final_score \in 0..1000

\* C2: a URL whose host as written in the message is a shortener host has
\* is_shortener = true and link_score >= 0.5 in its heuristic record, whatever
\* expand_url returned.
C2_ShortenerAlwaysFlagged ==
    \A c \in Analysed :
        \A i \in 1..Len(Rec(c).url_infos) :
            shortener_check(domain_from_url(Rec(c).urls[i]))
                => /\ Rec(c).url_infos[i].is_shortener
                   /\ Rec(c).url_infos[i].link_score >= 5000

\* C3: when the HEAD or the GET of expand_url fails, the record is complete and
\* the URL's expanded_url is the raw URL as extracted (not its normalised form).
C3_ExpansionFailsSoft ==
    \A c \in Analysed :
        /\ DOMAIN Rec(c) = RECORD_KEYS
        /\ Len(Rec(c).url_infos) = Len(Rec(c).urls)
        /\ \A i \in 1..Len(Rec(c).urls) :
               IsFailure(PatternAt(Ev(c).nets, i))
                   => /\ Rec(c).url_infos[i].original_url = Rec(c).urls[i]
                      /\ Rec(c).url_infos[i].expanded_url = Rec(c).urls[i]

\* C3 witness: a www. URL, whose normalised form differs from the raw one, whose
\* HEAD answered without Location and whose GET failed, recorded unexpanded.
C3_Witness ==
    \E c \in Analysed :
        \E i \in 1..Len(Rec(c).urls) :
            /\ PatternAt(Ev(c).nets, i) = NetGetFails
            /\ normalize_url(Rec(c).urls[i]) # Rec(c).urls[i]
            /\ Rec(c).url_infos[i].expanded_url = Rec(c).urls[i]

\* round(x, 3) of x in ten-thousandths, in thousandths.
Round3(x) == (x + 5) \div 10

SuspiciousCount(rec) ==
    Cardinality({i \in 1..Len(rec.url_infos) : rec.url_infos[i].link_score > 3000})

\* C4: with the classifier not loaded, or raising, ml is exactly
\* {available: false}, final_score is round3(0.6 * keyword score + 0.25 *
\* suspicious URL count) and no reason is the ML sentence.
C4_MlUnavailableAddsNothing ==
    \A c \in Analysed :
        (classifier = "none" \/ Ev(c).ml_out.kind = "raise")
            => /\ Rec(c).ml = [available |-> FALSE]
               /\ Rec(c).final_score =
                      Round3(Rec(c).keyword.score * 60 + SuspiciousCount(Rec(c)) * 2500)
               /\ \A r \in Range(Rec(c).reasons) : ~StartsWith(r, ML_REASON)

\* C4 witness: a loaded classifier raised on a message with keywords and a
\* suspicious URL.
C4_Witness ==
    \E c \in Analysed :
        /\ classifier = "loaded"
        /\ Ev(c).ml_out.kind = "raise"
        /\ Rec(c).keyword.score > 0
        /\ SuspiciousCount(Rec(c)) > 0
        /\ Rec(c).final_score > 0

\* C5: the verdict replied is one tier decided by final_score alone: SCAM iff
\* score >= 0.7, SUSPICIOUS iff 0.35 <= score < 0.7, SAFE otherwise.
C5_VerdictTiers ==
    reply.kind = "verdict"
        => /\ chat_key(reply.chat) \in DOMAIN LAST_ANALYSIS_BY_CHAT
           /\ reply.score = LAST_ANALYSIS_BY_CHAT[chat_key(reply.chat)].final_score
           /\ reply.verdict \in {"SCAM", "SUSPICIOUS", "SAFE"}
           /\ (reply.verdict = "SCAM") <=> (reply.score >= 700)
           /\ (reply.verdict = "SUSPICIOUS") <=> (reply.score >= 350 /\ reply.score < 700)
           /\ (reply.verdict = "SAFE") <=> (reply.score < 350)
           /\ (reply.score \in {350, 699}) => (reply.verdict = "SUSPICIOUS")

\* C5 witness: a message whose final_score is exactly 0.7 was answered SCAM.
C5_Witness ==
    reply.kind = "verdict" /\ reply.score = 700 /\ reply.verdict = "SCAM"

\* The text holds none of the literal heads of URL_REGEX.
NoUrlHead(text) ==
    /\ ~Contains(HTTP_SCHEME, LowerStr(text))
    /\ ~Contains(HTTPS_SCHEME, LowerStr(text))
    /\ ~Contains(WWW_PREFIX, LowerStr(text))

\* C6: url_infos is as long as urls and its i-th entry has original_url =
\* urls[i]; for a text with no URL both are empty.
C6_UrlInfosFollowUrls ==
    \A c \in Analysed :
        /\ Len(Rec(c).url_infos) = Len(Rec(c).urls)
        /\ \A i \in 1..Len(Rec(c).urls) : Rec(c).url_infos[i].original_url = Rec(c).urls[i]
        /\ NoUrlHead(Ev(c).text) => (Rec(c).urls = <<>> /\ Rec(c).url_infos = <<>>)

\* C6 witness: a message with the same URL twice, one expansion that failed,
\* one that succeeded and one WHOIS lookup that failed.
C6_Witness ==
    \E c \in Analysed :
        /\ Len(Rec(c).urls) >= 2
        /\ Rec(c).urls[1] = Rec(c).urls[2]
        /\ \E i \in 1..Len(Rec(c).urls) : IsFailure(PatternAt(Ev(c).nets, i))
        /\ \E i \in 1..Len(Rec(c).urls) :
               Rec(c).url_infos[i].expanded_url # Rec(c).urls[i]
        /\ \E i \in 1..Len(Rec(c).urls) :
               /\ "whois_success" \in DOMAIN Rec(c).url_infos[i]
               /\ ~Rec(c).url_infos[i].whois_success

HasKeywordReason(rec) == rec.keyword.keywords # <<>>

HasPidginReason(rec) == rec.keyword.pidgin # <<>>

HasMlReason(rec) == rec.ml.available /\ rec.ml.label # <<>> /\ rec.ml.label[1] # <<>>

ReasonLinks(rec) == {i \in 1..Len(rec.url_infos) : rec.url_infos[i].link_score > 2500}

Count(b) == IF b THEN 1 ELSE 0

\* reasons is: the keyword sentence, the pidgin sentence, one sentence per URL
\* with link_score > 0.25 in url order, the ML sentence; each present iff its
\* condition holds.
ReasonsInOrder(rec) ==
    LET nk == Count(HasKeywordReason(rec))
        np == Count(HasPidginReason(rec))
        nm == Count(HasMlReason(rec))
    IN  /\ Len(rec.reasons) = nk + np + Cardinality(ReasonLinks(rec)) + nm
        /\ (nk = 1) =>
               rec.reasons[1] = KEYWORD_REASON \o Join(JOIN_SEP, rec.keyword.keywords)
        /\ (np = 1) =>
               rec.reasons[nk + 1] = PIDGIN_REASON \o Join(JOIN_SEP, rec.keyword.pidgin)
        /\ \A i \in ReasonLinks(rec) :
               rec.reasons[nk + np + Cardinality({k \in ReasonLinks(rec) : k <= i})] =
                   LINK_REASON \o rec.url_infos[i].original_url
                       \o LINK_ARROW \o rec.url_infos[i].expanded_url
        /\ (nm = 1) => StartsWith(rec.reasons[Len(rec.reasons)], ML_REASON \o rec.ml.label[1])

\* C7: the reasons of every record are built in the fixed order keyword, pidgin,
\* one per URL with link_score > 0.25 in url order, ML, and hold nothing else.
C7_ReasonsFixedOrder ==
    \A c \in Analysed : ReasonsInOrder(Rec(c))

\* C7 witness: a record with all four kinds of reason, two link sentences, a URL
\* with link_score exactly 0.3 that has a sentence and a URL that has none.
C7_Witness ==
    \E c \in Analysed :
        /\ HasKeywordReason(Rec(c)) /\ HasPidginReason(Rec(c)) /\ HasMlReason(Rec(c))
        /\ Cardinality(ReasonLinks(Rec(c))) = 2
        /\ \E i \in 1..Len(Rec(c).url_infos) : Rec(c).url_infos[i].link_score = 3000
        /\ \E i \in 1..Len(Rec(c).url_infos) : i \notin ReasonLinks(Rec(c))
        /\ Len(Rec(c).reasons) = 5

\* The position of term in vocab.
Pos(vocab, term) == CHOOSE k \in 1..Len(vocab) : vocab[k] = term

\* ms lists exactly the terms of vocab that occur in txt, in the order of vocab.
MatchesInVocabOrder(ms, vocab, txt) ==
    /\ \A i \in 1..Len(ms) : ms[i] \in Range(vocab)
    /\ \A i \in 1..Len(ms) : \A j \in (i + 1)..Len(ms) : Pos(vocab, ms[i]) < Pos(vocab, ms[j])
    /\ \A t \in Range(vocab) : Contains(t, txt) <=> t \in Range(ms)

\* C8: the matched formal and pidgin terms are in vocabulary order, each at most
\* once, score = min(1.0, 0.18 * formal + 0.08 * pidgin) lies in [0,1], and the
\* empty text scores 0 with empty lists.
C8_KeywordScore ==
    /\ compute_keyword_score(<<>>) = [score |-> 0, keywords |-> <<>>, pidgin |-> <<>>]
    /\ \A c \in Analysed :
           /\ MatchesInVocabOrder(Rec(c).keyword.keywords, KEYWORDS, LowerStr(Ev(c).text))
           /\ MatchesInVocabOrder(Rec(c).keyword.pidgin, PIDGIN_PATTERNS,
                                  LowerStr(Ev(c).text))
           /\ Rec(c).keyword.score =
                  Min(100, 18 * Len(Rec(c).keyword.keywords) + 8 * Len(Rec(c).keyword.pidgin))
           /\ Rec(c).keyword.score \in 0..100

\* C8 witness: a message whose weighted matches exceed 1.0, with a term that
\* occurs twice in the text, scored 1.0.
C8_Witness ==
    \E c \in Analysed :
        /\ 18 * Len(Rec(c).keyword.keywords) + 8 * Len(Rec(c).keyword.pidgin) > 100
        /\ Rec(c).keyword.score = 100
        /\ \E i, j \in 1..Len(Ev(c).text) :
               /\ i < j
               /\ PrefixAt(LowerStr(Ev(c).text), i, KEYWORDS[1])
               /\ PrefixAt(LowerStr(Ev(c).text), j, KEYWORDS[1])

\* C9 as stated: the cache entry of every conversation is the record of the
\* last message received in it.
C9_CacheHoldsLastMessage ==
    \A c \in Chats :
        lastMessage[c] # <<>>
            => /\ chat_key(c) \in DOMAIN LAST_ANALYSIS_BY_CHAT
               /\ LAST_ANALYSIS_BY_CHAT[chat_key(c)] = analysis_of(lastMessage[c][1])

\* The cache holds, for each conversation, the record of its last non-blank
\* message, and nothing for a conversation without one.
CacheHoldsLastAnalysed ==
    /\ DOMAIN LAST_ANALYSIS_BY_CHAT \subseteq {chat_key(c) : c \in Chats}
    /\ \A c \in Chats :
           IF lastAnalyzed[c] = <<>>
           THEN chat_key(c) \notin DOMAIN LAST_ANALYSIS_BY_CHAT
           ELSE /\ chat_key(c) \in DOMAIN LAST_ANALYSIS_BY_CHAT
                /\ LAST_ANALYSIS_BY_CHAT[chat_key(c)] = analysis_of(lastAnalyzed[c][1])

\* A step that hands a report to save_report hands the projection of the record
\* cached for the conversation of the /report; the file changes only in such a
\* step, and a written file ends with that projection; a /report answered "no
\* recent message" changes neither the file nor what was handed over.
ReportPersistsOwnRecord ==
    /\ (saved' # saved) =>
           \E c \in Chats :
               /\ lastAnalyzed[c] # <<>>
               /\ chat_key(c) \in DOMAIN LAST_ANALYSIS_BY_CHAT
               /\ reply' = [chat |-> c, kind |-> "reported", verdict |-> "",
                            score |-> 0, reasons |-> <<>>]
               /\ saved' = Append(saved,
                                  [chat |-> c, at |-> now,
                                   short |-> short_of(LAST_ANALYSIS_BY_CHAT[chat_key(c)])])
    /\ (reportsFile' # reportsFile) =>
           /\ saved' # saved
           /\ (reportsFile'.state = "valid") =>
                  reportsFile'.arr[Len(reportsFile'.arr)] = saved'[Len(saved')].short
    /\ (reply'.kind = "no_recent") =>
           /\ lastAnalyzed[reply'.chat] = <<>>
           /\ reportsFile' = reportsFile
           /\ saved' = saved

\* C9 (amended): the cache entry of conversation c is the record of the most
\* recent non-blank message of c (a blank message is rejected and leaves the
\* entry as it was); a /report in c hands exactly that record's projection to the
\* report store, never another conversation's; a /report in a conversation with
\* no analysed message persists nothing.
C9_CacheAndReport ==
    [](CacheHoldsLastAnalysed) /\ [][ReportPersistsOwnRecord]_vars

\* C9 witness: a conversation whose last message was blank, after an analysed
\* one, was reported and its earlier record stored, while the other conversation
\* holds a different record.
C9_Witness ==
    \E c \in Chats, d \in Chats :
        /\ c # d
        /\ lastMessage[c] # <<>> /\ IsBlank(lastMessage[c][1].text)
        /\ lastAnalyzed[c] # <<>>
        /\ lastAnalyzed[d] # <<>>
        /\ chat_key(c) \in DOMAIN LAST_ANALYSIS_BY_CHAT
        /\ chat_key(d) \in DOMAIN LAST_ANALYSIS_BY_CHAT
        /\ LAST_ANALYSIS_BY_CHAT[chat_key(c)] # LAST_ANALYSIS_BY_CHAT[chat_key(d)]
        /\ saved # <<>>
        /\ saved[Len(saved)].chat = c
        /\ saved[Len(saved)].at = lastMessage[c][1].timestamp
        /\ reportsFile.state = "valid"
        /\ reportsFile.arr[Len(reportsFile.arr)] = short_of(LAST_ANALYSIS_BY_CHAT[chat_key(c)])

\* The projections handed to save_report, in call order.
Shorts(entries) == [i \in 1..Len(entries) |-> entries[i].short]

RECURSIVE Pick(_, _, _)
\* The projections of the entries i.. whose index is in S, in order.
Pick(entries, S, i) ==
    IF i > Len(entries) THEN <<>>
    ELSE (IF i \in S THEN <<entries[i].short>> ELSE <<>>) \o Pick(entries, S, i + 1)

\* The file holds at most 2000 entries: some of the start-up entries, then
\* projections handed to save_report, unaltered and in call order.
EntriesNeverAltered ==
    /\ Len(reportsFile.arr) <= REPORTS_KEPT
    /\ \E S \in SUBSET (1..Len(saved)) :
           /\ Len(reportsFile.arr) - Cardinality(S) \in 0..priorCount
           /\ reportsFile.arr =
                  PriorArr(Len(reportsFile.arr) - Cardinality(S)) \o Pick(saved, S, 1)

====
